---- MODULE Spec2Model ----
(***************************************************************************)
(* Model of the fixed-width -> delimited transcoder:                       *)
(*   EncodingProperties.__init__        (encoding_properties.py)           *)
(*   MockFixedWidthFileWriter           (fixed_width_writer.py)            *)
(*   DelimitedFileWriter                (delimited_writer.py)              *)
(* Text is a sequence of one-character strings.                            *)
(***************************************************************************)
EXTENDS Integers, Sequences, FiniteSets, TLC

VARIABLES
    pc,                \* where the run stands: "start", "constructed",
                       \* "construct_failed", "written", "parsed",
                       \* "parse_failed", "generated"
    spec,              \* the content of the spec file (json.load's result)
    linesep,           \* os.linesep of the platform
    props,             \* the attributes of the EncodingProperties object
    error,             \* the exception that ended the run, or NoError
    opened,            \* the files opened so far, in order
    fixed_width_data,  \* the field lists the fixed-width file was written from
    fixed_width_file,  \* the characters of the fixed-width file, or NoFile
    delimited_data,    \* what parse_fixed_width_file returned
    processed,         \* the lines the loop of parse_fixed_width_file took up
    delimited_file     \* the characters of the delimited file, or NoFile

vars == <<pc, spec, linesep, props, error, opened,
          fixed_width_data, fixed_width_file,
          delimited_data, processed, delimited_file>>

(* ------------------------------ bounds --------------------------------- *)

\* Most lines a fixed-width file holds.
MaxLines == 2

(* ---------------------------- characters ------------------------------- *)

LF == "\n"
CR == "\r"
SP == " "
TAB == "\t"
COMMA == ","
QUOTE == "\""

\* The argument value None (delimited_newline=None, newline=None).
None == <<"None">>
EMPTY == <<>>

\* os.linesep of the platforms Python runs on.
Linesep == {<<LF>>, <<CR, LF>>}

(* ------------------------- sequence helpers ---------------------------- *)

RECURSIVE sum(_)
sum(s) == IF s = <<>> THEN 0 ELSE Head(s) + sum(Tail(s))

RECURSIVE Concat(_)
Concat(ss) == IF ss = <<>> THEN <<>> ELSE Head(ss) \o Concat(Tail(ss))

\* str.replace(old, "") for a one-character old.
RECURSIVE replace(_, _)
replace(s, old) ==
    IF s = <<>> THEN <<>>
    ELSE IF Head(s) = old THEN replace(Tail(s), old)
         ELSE <<Head(s)>> \o replace(Tail(s), old)

Min(a, b) == IF a < b THEN a ELSE b
Max(a, b) == IF a > b THEN a ELSE b

\* Python's s[lo:hi]: a negative index counts from the end, both are clamped.
PyIndex(n, i) == IF i < 0 THEN Max(n + i, 0) ELSE Min(i, n)
PySlice(s, lo, hi) ==
    LET a == PyIndex(Len(s), lo)
        b == PyIndex(Len(s), hi)
    IN  IF a >= b THEN <<>> ELSE SubSeq(s, a + 1, b)

\* str.ljust / str.rjust with spaces.
RECURSIVE Spaces(_)
Spaces(n) == IF n <= 0 THEN <<>> ELSE <<SP>> \o Spaces(n - 1)
ljust(s, w) == s \o Spaces(w - Len(s))
rjust(s, w) == Spaces(w - Len(s)) \o s

(* ------------------------------ int() ---------------------------------- *)

Digits == <<"0", "1", "2", "3", "4", "5", "6", "7", "8", "9">>
IsDigit(c) == \E d \in 1..10 : Digits[d] = c
DigitValue(c) == (CHOOSE d \in 1..10 : Digits[d] = c) - 1

RECURSIVE DigitsValue(_, _)
DigitsValue(ds, acc) ==
    IF ds = <<>> THEN acc
    ELSE DigitsValue(Tail(ds), 10 * acc + DigitValue(Head(ds)))

\* The literals int() converts: an optional sign, then one or more digits.
IsIntLiteral(raw) ==
    LET ds == IF raw # <<>> /\ Head(raw) = "-" THEN Tail(raw) ELSE raw
    IN  ds # <<>> /\ \A k \in 1..Len(ds) : IsDigit(ds[k])

int(raw) ==
    IF Head(raw) = "-" THEN 0 - DigitsValue(Tail(raw), 0)
    ELSE DigitsValue(raw, 0)

(* ------------------------- the spec file ------------------------------- *)

ColumnNamesPool == {<<>>, <<"A">>, <<"A", "B">>, <<"A", "B", "C">>}

OffsetsPool == {<<>>,
                <<<<"2">>>>,
                <<<<"3">>, <<"2">>>>,
                <<<<"4">>, <<"2">>>>,
                <<<<"0">>, <<"2">>>>,
                <<<<"-", "1">>, <<"3">>>>,
                <<<<"x">>, <<"2">>>>}

IncludeHeaderPool == {"True", "False", "true"}
FixedWidthEncodingPool == {"windows-1252", "latin-1"}
DelimitedEncodingPool == {"utf-8", "utf-16"}

\* The values of delimited_newline the constructor is called with.
DelimitedNewlinePool == {None, EMPTY, <<LF>>, <<CR, LF>>, <<CR>>, <<TAB>>}

SpecFiles ==
    [ColumnNames : ColumnNamesPool,
     Offsets : OffsetsPool,
     IncludeHeader : IncludeHeaderPool,
     FixedWidthEncoding : FixedWidthEncodingPool,
     DelimitedEncoding : DelimitedEncodingPool]

(* --------------------- EncodingProperties.__init__ --------------------- *)

NoError == [type |-> "", message |-> "", value |-> <<>>]
ValueError(message, value) ==
    [type |-> "ValueError", message |-> message, value |-> value]

\* The attributes as set before the spec file is loaded.
InitialProps(delimited_newline) ==
    [delimited_newline |-> delimited_newline,
     column_names |-> <<>>,
     offsets |-> <<>>,
     fixed_width_encoding |-> "",
     delimited_encoding |-> "",
     include_header |-> FALSE]

\* A mutation: "\t" is let through as a terminator.
LegalNewlinesWithTab == {None, EMPTY, <<LF>>, <<CR, LF>>, <<CR>>, <<TAB>>}

\* The values delimited_newline may take.
LegalNewlines == {None, EMPTY, <<LF>>, <<CR, LF>>, <<CR>>}

\* A mutation: the flag is compared without regard to case.
IncludeHeaderAnyCase(flag) == flag \in {"True", "true", "TRUE"}

\* spec["IncludeHeader"] == "True"
IncludeHeader(flag) == flag = "True"

\* spec["FixedWidthEncoding"] != "windows-1252" rejects the spec.
FixedWidthEncodingOk(encoding) == encoding = "windows-1252"

\* A mutation: every delimited encoding whose name starts with utf passes.
DelimitedEncodingOkAnyUtf(encoding) == encoding \in {"utf-8", "utf-16"}

\* spec["DelimitedEncoding"] != "utf-8" rejects the spec.
DelimitedEncodingOk(encoding) == encoding = "utf-8"

MapInt(raws) == [k \in 1..Len(raws) |-> int(raws[k])]

\* The constructor's body after the spec file is loaded: the object's
\* attributes and the exception raised, if any, in the order of the checks.
EncodingPropertiesInit(sp, delimited_newline) ==
    LET p0 == InitialProps(delimited_newline)
    IN
    IF delimited_newline \notin LegalNewlines
    THEN [self |-> p0,
          error |-> ValueError("Illegal newline value: ", delimited_newline)]
    ELSE
    LET p1 == [p0 EXCEPT !.column_names = sp.ColumnNames]
    IN
    IF \E k \in 1..Len(sp.Offsets) : ~IsIntLiteral(sp.Offsets[k])
    THEN [self |-> p1,
          error |-> ValueError("invalid literal for int() with base 10: ",
                               sp.Offsets[CHOOSE k \in 1..Len(sp.Offsets) :
                                   /\ ~IsIntLiteral(sp.Offsets[k])
                                   /\ \A j \in 1..(k - 1) : IsIntLiteral(sp.Offsets[j])])]
    ELSE
    LET p2 == [p1 EXCEPT !.offsets = MapInt(sp.Offsets)]
    IN
    IF Len(p2.column_names) # Len(p2.offsets)
    THEN [self |-> p2,
          error |-> ValueError("The number of column names and offsets do not match", <<>>)]
    ELSE
    LET p3 == [p2 EXCEPT !.include_header = IncludeHeader(sp.IncludeHeader)]
    IN
    IF ~FixedWidthEncodingOk(sp.FixedWidthEncoding)
    THEN [self |-> p3,
          error |-> ValueError(" is either not a valid encoding, or it has not been implemented.",
                               sp.FixedWidthEncoding)]
    ELSE
    LET p4 == [p3 EXCEPT !.fixed_width_encoding = "cp1252"]
    IN
    IF ~DelimitedEncodingOk(sp.DelimitedEncoding)
    THEN [self |-> p4,
          error |-> ValueError(" is either not a valid encoding or it has not been implemented.",
                               sp.DelimitedEncoding)]
    ELSE [self |-> [p4 EXCEPT !.delimited_encoding = "UTF-8"],
          error |-> NoError]

(* ------------------------- text-mode files ---------------------------- *)

\* What open(..., "w", newline=newline).write(s) puts in the file: with
\* newline=None every "\n" becomes os.linesep, with "" or "\n" nothing is
\* translated, with "\r" or "\r\n" every "\n" becomes that string.
RECURSIVE TextWrite(_, _, _)
TextWrite(newline, ls, s) ==
    IF s = <<>> THEN <<>>
    ELSE (IF Head(s) = LF
          THEN (IF newline = None THEN ls
                ELSE IF newline \in {EMPTY, <<LF>>} THEN <<LF>>
                ELSE newline)
          ELSE <<Head(s)>>)
         \o TextWrite(newline, ls, Tail(s))

\* A mutation: the file is read with newline="\n", so only "\n" ends a line.
RECURSIVE LfOnlyReadLines(_, _)
LfOnlyReadLines(s, cur) ==
    IF s = <<>> THEN (IF cur = <<>> THEN <<>> ELSE <<cur>>)
    ELSE IF Head(s) = LF
         THEN <<Append(cur, LF)>> \o LfOnlyReadLines(Tail(s), <<>>)
    ELSE LfOnlyReadLines(Tail(s), Append(cur, Head(s)))

\* The lines iterating a file opened with open(..., "r", newline=None)
\* yields: "\n", "\r" and "\r\n" each end a line and are handed over as "\n";
\* a last line without a terminator is handed over as it is.
RECURSIVE UniversalReadLines(_, _)
UniversalReadLines(s, cur) ==
    IF s = <<>> THEN (IF cur = <<>> THEN <<>> ELSE <<cur>>)
    ELSE IF Head(s) = CR /\ Len(s) >= 2 /\ s[2] = LF
         THEN <<Append(cur, LF)>> \o UniversalReadLines(Tail(Tail(s)), <<>>)
    ELSE IF Head(s) \in {CR, LF}
         THEN <<Append(cur, LF)>> \o UniversalReadLines(Tail(s), <<>>)
    ELSE UniversalReadLines(Tail(s), Append(cur, Head(s)))

(* --------------------- MockFixedWidthFileWriter ------------------------ *)

\* The values a test writes into a column.
FieldPool == {<<"1">>, <<"a", "b", "c">>}

\* The lines of a file whose columns have the widths gen: every column holds
\* a value of the pool no longer than the column, padded with spaces on the
\* right (ljust, as generate_fixed_width_data pads) or on the left.
FieldChoices(w) == {c \in FieldPool : Len(c) <= w}
LinesOf(gen, sides) ==
    {line \in [1..Len(gen) -> UNION {{ljust(c, gen[k]), rjust(c, gen[k])} :
                                         c \in FieldPool, k \in 1..Len(gen)}] :
        \E side \in sides :
            \A k \in 1..Len(gen) :
                \E c \in FieldChoices(gen[k]) :
                    line[k] = IF side = "ljust" THEN ljust(c, gen[k])
                              ELSE rjust(c, gen[k])}

\* The column widths of the specs a fixed-width file is generated from: the
\* reader's own when they are all positive, one column of the same total
\* width when they are not, and either with its first column widened by one
\* (a file that does not match the reader's spec, as bad_spec.json gives).
Widen(gen) == IF gen = <<>> THEN <<1>> ELSE [gen EXCEPT ![1] = gen[1] + 1]
Matching(offsets) ==
    IF \A k \in 1..Len(offsets) : offsets[k] > 0 THEN offsets
    ELSE IF sum(offsets) > 0 THEN <<sum(offsets)>>
    ELSE <<>>
FixedWidthLines(offsets) ==
    LinesOf(Matching(offsets), {"ljust", "rjust"})
        \cup LinesOf(Widen(Matching(offsets)), {"ljust"})

RECURSIVE SeqsUpTo(_, _)
SeqsUpTo(S, n) ==
    IF n = 0 THEN {<<>>}
    ELSE LET shorter == SeqsUpTo(S, n - 1)
         IN  shorter \cup {Append(q, x) : q \in shorter, x \in S}

\* write_fixed_width_file: every field of every line, then "\n" after each
\* line, through a file opened with newline=fixed_width_newline.
RECURSIVE FixedWidthText(_)
FixedWidthText(data) ==
    IF data = <<>> THEN <<>>
    ELSE Concat(Head(data)) \o <<LF>> \o FixedWidthText(Tail(data))

write_fixed_width_file(data, fixed_width_newline, ls) ==
    TextWrite(fixed_width_newline, ls, FixedWidthText(data))

(* ------------------------ DelimitedFileWriter -------------------------- *)

\* A mutation: the padding is left in the fields.
line_data_unstripped(line, offsets) ==
    [i \in 1..Len(offsets) |->
        LET start == sum(SubSeq(offsets, 1, i - 1))
        IN  PySlice(line, start, start + offsets[i])]

\* A mutation: a column starts one character late.
line_data_shifted(line, offsets) ==
    [i \in 1..Len(offsets) |->
        LET start == sum(SubSeq(offsets, 1, i - 1)) + 1
        IN  replace(PySlice(line, start, start + offsets[i]), SP)]

\* The fields of one line: column i is line[sum(offsets[0:i]) :
\* sum(offsets[0:i]) + offset] with every space removed.
line_data(line, offsets) ==
    [i \in 1..Len(offsets) |->
        LET start == sum(SubSeq(offsets, 1, i - 1))
        IN  replace(PySlice(line, start, start + offsets[i]), SP)]

\* A mutation: a line of the wrong length is skipped instead of raising.
RECURSIVE ParseLinesSkipping(_, _, _, _)
ParseLinesSkipping(lines, offsets, data, n) ==
    IF lines = <<>> THEN [raised |-> FALSE, data |-> data, processed |-> n]
    ELSE LET line == replace(Head(lines), LF)
         IN  IF Len(line) # sum(offsets)
             THEN ParseLinesSkipping(Tail(lines), offsets, data, n + 1)
             ELSE ParseLinesSkipping(Tail(lines), offsets,
                                     Append(data, line_data(line, offsets)), n + 1)

\* The loop of parse_fixed_width_file over the lines read: the records
\* appended so far, the number of lines the loop has taken up, and whether
\* a line of the wrong length raised.
RECURSIVE ParseLines(_, _, _, _)
ParseLines(lines, offsets, data, n) ==
    IF lines = <<>> THEN [raised |-> FALSE, data |-> data, processed |-> n]
    ELSE LET line == replace(Head(lines), LF)
         IN  IF Len(line) # sum(offsets)
             THEN [raised |-> TRUE, data |-> data, processed |-> n + 1]
             ELSE ParseLines(Tail(lines), offsets,
                             Append(data, line_data(line, offsets)), n + 1)

parse_fixed_width_file(content, offsets) ==
    ParseLines(UniversalReadLines(content, <<>>), offsets, <<>>, 0)

\* csv.writer(f, delimiter=",", lineterminator=...) with the default
\* QUOTE_MINIMAL: a field is quoted when it holds the delimiter, the quote
\* character or a character of the line terminator; a quote inside it is
\* doubled; a row of one empty field is written as "".
NeedsQuotes(field, lineterminator) ==
    \E k \in 1..Len(field) :
        \/ field[k] \in {COMMA, QUOTE}
        \/ \E j \in 1..Len(lineterminator) : lineterminator[j] = field[k]

RECURSIVE DoubleQuotes(_)
DoubleQuotes(field) ==
    IF field = <<>> THEN <<>>
    ELSE (IF Head(field) = QUOTE THEN <<QUOTE, QUOTE>> ELSE <<Head(field)>>)
         \o DoubleQuotes(Tail(field))

CsvField(field, lineterminator) ==
    IF NeedsQuotes(field, lineterminator)
    THEN <<QUOTE>> \o DoubleQuotes(field) \o <<QUOTE>>
    ELSE field

RECURSIVE CsvJoin(_, _)
CsvJoin(row, lineterminator) ==
    IF row = <<>> THEN <<>>
    ELSE IF Len(row) = 1 THEN CsvField(row[1], lineterminator)
    ELSE CsvField(row[1], lineterminator) \o <<COMMA>>
             \o CsvJoin(Tail(row), lineterminator)

writerow(row, lineterminator) ==
    (IF Len(row) = 1 /\ row[1] = <<>> THEN <<QUOTE, QUOTE>>
     ELSE CsvJoin(row, lineterminator)) \o lineterminator

RECURSIVE writerows(_, _)
writerows(rows, lineterminator) ==
    IF rows = <<>> THEN <<>>
    ELSE writerow(Head(rows), lineterminator)
             \o writerows(Tail(rows), lineterminator)

\* The terminator generate_delimited_file hands to csv.writer.
ResolveNewline(delimited_newline, ls) ==
    IF delimited_newline \in {None, EMPTY} THEN ls ELSE delimited_newline

\* A column name as text (the names of the model are one character long).
NameText(name) == <<name>>
Header(column_names) == [k \in 1..Len(column_names) |-> NameText(column_names[k])]

\* A mutation: the output file is opened with the default newline=None.
OutputNewlineModeDefault == None

\* The newline mode generate_delimited_file opens the output file with.
OutputNewlineMode == EMPTY

\* What generate_delimited_file leaves in the delimited file.
generate_delimited_file(p, data, ls) ==
    LET lineterminator == ResolveNewline(p.delimited_newline, ls)
        rows == (IF p.include_header = TRUE THEN <<Header(p.column_names)>> ELSE <<>>)
                    \o data
    IN  TextWrite(OutputNewlineMode, ls, writerows(rows, lineterminator))

(* ------------------------------ state ---------------------------------- *)

NoFile == <<"NoFile">>

Init ==
    /\ pc = "start"
    /\ spec \in SpecFiles
    /\ linesep \in Linesep
    /\ props = InitialProps(None)
    /\ error = NoError
    /\ opened = <<>>
    /\ fixed_width_data = <<>>
    /\ fixed_width_file = NoFile
    /\ delimited_data = <<>>
    /\ processed = 0
    /\ delimited_file = NoFile

\* EncodingProperties(spec_filename, fixed_width_filename, delimited_filename,
\* delimited_newline): the spec file is opened and loaded, then validated.
Construct ==
    /\ pc = "start"
    /\ \E delimited_newline \in DelimitedNewlinePool :
          LET r == EncodingPropertiesInit(spec, delimited_newline)
          IN  /\ props' = r.self
              /\ error' = r.error
              /\ pc' = IF r.error.type = "" THEN "constructed" ELSE "construct_failed"
    /\ opened' = Append(opened, "spec")
    /\ UNCHANGED <<spec, linesep, fixed_width_data, fixed_width_file,
                   delimited_data, processed, delimited_file>>

\* MockFixedWidthFileWriter(encoding_props, fixed_width_newline)
\* .write_fixed_width_file(fixed_width_data)
WriteFixedWidthFile ==
    /\ pc = "constructed"
    /\ \E data \in SeqsUpTo(FixedWidthLines(props.offsets), MaxLines),
          fixed_width_newline \in LegalNewlines :
          /\ fixed_width_data' = data
          /\ fixed_width_file' = write_fixed_width_file(data, fixed_width_newline, linesep)
    /\ opened' = Append(opened, "fixed_width:w")
    /\ pc' = "written"
    /\ UNCHANGED <<spec, linesep, props, error, delimited_data, processed,
                   delimited_file>>

\* DelimitedFileWriter(encoding_props).parse_fixed_width_file()
Parse ==
    /\ pc = "written"
    /\ LET r == parse_fixed_width_file(fixed_width_file, props.offsets)
       IN  /\ processed' = r.processed
           /\ IF r.raised
              THEN /\ error' = ValueError("One or more fields are of incorrect length", <<>>)
                   /\ pc' = "parse_failed"
                   /\ UNCHANGED delimited_data
              ELSE /\ delimited_data' = r.data
                   /\ pc' = "parsed"
                   /\ UNCHANGED error
    /\ opened' = Append(opened, "fixed_width:r")
    /\ UNCHANGED <<spec, linesep, props, fixed_width_data, fixed_width_file,
                   delimited_file>>

\* DelimitedFileWriter(encoding_props).generate_delimited_file(delimited_data)
Generate ==
    /\ pc = "parsed"
    /\ delimited_file' = generate_delimited_file(props, delimited_data, linesep)
    /\ opened' = Append(opened, "delimited:w")
    /\ pc' = "generated"
    /\ UNCHANGED <<spec, linesep, props, error, fixed_width_data,
                   fixed_width_file, delimited_data, processed>>

Next == Construct \/ WriteFixedWidthFile \/ Parse \/ Generate

Spec == Init /\ [][Next]_vars

(* ----------------------- vocabulary of the claims ----------------------- *)

Terminators == {<<LF>>, <<CR>>, <<CR, LF>>}

\* The logical lines the fixed-width file was written from.
LogicalLines == [k \in 1..Len(fixed_width_data) |-> Concat(fixed_width_data[k])]

HasNewline(text) == \E k \in 1..Len(text) : text[k] \in {CR, LF}

\* text cut at every occurrence of term: the pieces before each occurrence,
\* and what is left after the last one.
RECURSIVE SplitOn(_, _, _)
SplitOn(text, term, cur) ==
    IF text = <<>> THEN [rows |-> <<>>, rest |-> cur]
    ELSE IF Len(text) >= Len(term) /\ SubSeq(text, 1, Len(term)) = term
         THEN LET r == SplitOn(SubSeq(text, Len(term) + 1, Len(text)), term, <<>>)
              IN  [rows |-> <<cur>> \o r.rows, rest |-> r.rest]
    ELSE SplitOn(Tail(text), term, Append(cur, Head(text)))

\* The terminator the caller asked for.
ChosenTerminator ==
    IF props.delimited_newline \in {None, EMPTY} THEN linesep
    ELSE props.delimited_newline

RowsWritten == (IF props.include_header THEN 1 ELSE 0) + Len(delimited_data)

(* -------------------------------- C1 ----------------------------------- *)

\* C1: whatever the legal delimited_newline and whatever newline convention
\* the fixed-width input uses, the delimited file is exactly one piece per
\* row written (header and data rows), each followed by the chosen
\* terminator, with no "\r" or "\n" left over inside a piece or after the
\* last terminator; None and "" stand for os.linesep.
C1_TerminatorExactness ==
    pc = "generated" =>
        LET split == SplitOn(delimited_file, ChosenTerminator, <<>>)
        IN  /\ ChosenTerminator \in Terminators
            /\ split.rest = <<>>
            /\ Len(split.rows) = RowsWritten
            /\ \A k \in 1..Len(split.rows) : ~HasNewline(split.rows[k])

\* A header and two data rows written with "\r\n" on a platform whose
\* os.linesep is "\n", from an input that ends its lines with "\r".
C1_Witness ==
    /\ pc = "generated"
    /\ props.delimited_newline = <<CR, LF>>
    /\ linesep = <<LF>>
    /\ props.include_header
    /\ Len(delimited_data) = 2
    /\ \E k \in 1..Len(fixed_width_file) : fixed_width_file[k] = CR
    /\ \A k \in 1..Len(fixed_width_file) : fixed_width_file[k] # LF

(* -------------------------------- C2 ----------------------------------- *)

WrongLength(k) == Len(LogicalLines[k]) # sum(props.offsets)

\* C2: parse_fixed_width_file returns records only when every logical line
\* is sum(offsets) characters long; at the first line of another length it
\* raises, no later line is taken up, nothing is returned, and the delimited
\* file has been neither opened nor written.
C2_WidthFailFast ==
    pc \in {"parsed", "parse_failed", "generated"} =>
        IF \E k \in 1..Len(LogicalLines) : WrongLength(k)
        THEN LET first == CHOOSE k \in 1..Len(LogicalLines) :
                              WrongLength(k) /\ \A j \in 1..(k - 1) : ~WrongLength(j)
             IN  /\ pc = "parse_failed"
                 /\ error.type = "ValueError"
                 /\ error.message = "One or more fields are of incorrect length"
                 /\ processed = first
                 /\ delimited_data = <<>>
                 /\ delimited_file = NoFile
                 /\ \A k \in 1..Len(opened) : opened[k] # "delimited:w"
        ELSE /\ pc # "parse_failed"
             /\ Len(delimited_data) = Len(LogicalLines)
             /\ processed = Len(LogicalLines)

\* A good line followed by a line of the wrong length.
C2_Witness ==
    /\ pc = "parse_failed"
    /\ Len(fixed_width_data) = 2
    /\ ~WrongLength(1)
    /\ WrongLength(2)
    /\ processed = 2

(* -------------------------------- C3 ----------------------------------- *)

\* The run of the example: columns A and B of the given widths, the header
\* asked for, terminator "\n", and an input of the one given line.
ExampleRun(widths, line) ==
    /\ pc \in {"parsed", "parse_failed", "generated"}
    /\ props.column_names = <<"A", "B">>
    /\ props.offsets = widths
    /\ props.include_header
    /\ props.delimited_newline = <<LF>>
    /\ LogicalLines = <<line>>

\* The record ["abc", "1"] is decoded and "A,B\nabc,1\n" is written.
ExampleResult ==
    /\ pc # "parse_failed"
    /\ delimited_data = << << <<"a", "b", "c">>, <<"1">> >> >>
    /\ pc = "generated" =>
           delimited_file = <<"A", COMMA, "B", LF, "a", "b", "c", COMMA, "1", LF>>

\* C3 as stated: with columns [("A",3),("B",2)], the header and terminator
\* "\n", the input line "abc 1 " decodes to ["abc","1"] and the output is
\* "A,B\nabc,1\n".
C3_EndToEndExample ==
    ExampleRun(<<3, 2>>, <<"a", "b", "c", SP, "1", SP>>) => ExampleResult

\* C3 amended: the 6-character line "abc 1 " is rejected under widths (3,2)
\* and nothing is written; the record ["abc","1"] and the output
\* "A,B\nabc,1\n" come from the 5-character line "abc1 " under widths (3,2),
\* and from "abc 1 " under widths (4,2).
C3_EndToEndAmended ==
    /\ ExampleRun(<<3, 2>>, <<"a", "b", "c", SP, "1", SP>>) =>
           /\ pc = "parse_failed"
           /\ error.message = "One or more fields are of incorrect length"
           /\ delimited_file = NoFile
    /\ ExampleRun(<<3, 2>>, <<"a", "b", "c", "1", SP>>) => ExampleResult
    /\ ExampleRun(<<4, 2>>, <<"a", "b", "c", SP, "1", SP>>) => ExampleResult

\* The amended example has run to the end and written its output.
C3_Witness ==
    /\ ExampleRun(<<3, 2>>, <<"a", "b", "c", "1", SP>>)
    /\ pc = "generated"
    /\ delimited_file = <<"A", COMMA, "B", LF, "a", "b", "c", COMMA, "1", LF>>

(* -------------------------------- C4 ----------------------------------- *)

AllPositive(offsets) == \A k \in 1..Len(offsets) : offsets[k] > 0

\* The characters of positions [lo, lo + w) of a line, counted from 0.
Range(line, lo, w) == [k \in 1..w |-> line[lo + k]]

\* text without its spaces.
Unpadded(text) == SelectSeq(text, LAMBDA c : c # SP)

\* Each field of line k is a space-free value padded with spaces, on one
\* side, to the width of its column.
PaddedToSpec(k) ==
    /\ Len(fixed_width_data[k]) = Len(props.offsets)
    /\ \A i \in 1..Len(props.offsets) :
           LET field == fixed_width_data[k][i]
               value == Unpadded(field)
           IN  /\ Len(field) = props.offsets[i]
               /\ Len(value) <= props.offsets[i]
               /\ field \in {value \o Spaces(Len(field) - Len(value)),
                             Spaces(Len(field) - Len(value)) \o value}

\* Every record of space-free fields over two characters, field i no longer
\* than column i.
FieldAlphabet == {"a", "1"}
RecordsFitting(offsets) ==
    {r \in [1..Len(offsets) -> SeqsUpTo(FieldAlphabet, sum(offsets))] :
        \A i \in 1..Len(offsets) : Len(r[i]) <= offsets[i]}

\* The line of a record, field i padded on the side sides[i] names.
PaddedLine(r, offsets, sides) ==
    Concat([i \in 1..Len(offsets) |->
               IF sides[i] = "ljust" THEN ljust(r[i], offsets[i])
               ELSE rjust(r[i], offsets[i])])

\* C4: lines built by padding space-free fields, each no longer than its
\* column, with spaces on either side decode to exactly those fields, in
\* column order; field i is the characters [sum(offsets[0:i]),
\* sum(offsets[0:i]) + offsets[i]) of the line with every space deleted.
C4_RoundTrip ==
    (pc \in {"constructed", "parsed", "parse_failed", "generated"}
         /\ AllPositive(props.offsets)) =>
        /\ (\A k \in 1..Len(fixed_width_data) : PaddedToSpec(k)) =>
            /\ pc # "parse_failed"
            /\ Len(delimited_data) = Len(fixed_width_data)
            /\ \A k \in 1..Len(fixed_width_data) :
                   /\ Len(delimited_data[k]) = Len(props.offsets)
                   /\ \A i \in 1..Len(props.offsets) :
                          /\ delimited_data[k][i] = Unpadded(fixed_width_data[k][i])
                          /\ delimited_data[k][i] =
                                 Unpadded(Range(LogicalLines[k],
                                                sum(SubSeq(props.offsets, 1, i - 1)),
                                                props.offsets[i]))
        /\ pc = "constructed" =>
               \A r \in RecordsFitting(props.offsets) :
                   \A sides \in [1..Len(props.offsets) -> {"ljust", "rjust"}] :
                       parse_fixed_width_file(
                           PaddedLine(r, props.offsets, sides) \o <<LF>>,
                           props.offsets)
                         = [raised |-> FALSE, data |-> <<r>>, processed |-> 1]

\* Two columns, one line padded on the left and one padded on the right.
C4_Witness ==
    /\ pc = "parsed"
    /\ Len(props.offsets) = 2
    /\ AllPositive(props.offsets)
    /\ Len(fixed_width_data) = 2
    /\ PaddedToSpec(1)
    /\ PaddedToSpec(2)
    /\ Head(fixed_width_data[1][1]) = SP
    /\ fixed_width_data[2][1][Len(fixed_width_data[2][1])] = SP
    /\ delimited_data[1][1] = <<"1">>

(* -------------------------------- C5 ----------------------------------- *)

Constructing == pc # "start"

IllegalNewlineRaised ==
    /\ pc = "construct_failed"
    /\ error.type = "ValueError"
    /\ error.message = "Illegal newline value: "
    /\ error.value = props.delimited_newline

SoundBeforeEncodings ==
    /\ props.delimited_newline \in {None, EMPTY, <<LF>>, <<CR>>, <<CR, LF>>}
    /\ \A k \in 1..Len(spec.Offsets) : IsIntLiteral(spec.Offsets[k])
    /\ Len(spec.ColumnNames) = Len(spec.Offsets)

NoDataFileOpened ==
    /\ \A k \in 1..Len(opened) : opened[k] = "spec"
    /\ fixed_width_file = NoFile
    /\ delimited_file = NoFile

\* C6: a spec whose FixedWidthEncoding is not "windows-1252" or whose
\* DelimitedEncoding is not "utf-8" never yields an object; when that
\* encoding is the only defect the error names its value; and after every
\* failed construction neither data file has been opened, so no output exists.
C6_EncodingRejection ==
    Constructing =>
        /\ (spec.FixedWidthEncoding # "windows-1252" \/ spec.DelimitedEncoding # "utf-8")
               => (pc = "construct_failed" /\ error.type = "ValueError")
        /\ (SoundBeforeEncodings /\ spec.FixedWidthEncoding # "windows-1252")
               => error.value = spec.FixedWidthEncoding
        /\ (SoundBeforeEncodings /\ spec.FixedWidthEncoding = "windows-1252"
                /\ spec.DelimitedEncoding # "utf-8")
               => error.value = spec.DelimitedEncoding
        /\ pc = "construct_failed" => NoDataFileOpened

\* A spec whose only defect is its delimited encoding has been rejected.
C6_Witness ==
    /\ pc = "construct_failed"
    /\ SoundBeforeEncodings
    /\ spec.FixedWidthEncoding = "windows-1252"
    /\ spec.DelimitedEncoding = "utf-16"
    /\ error.message = " is either not a valid encoding or it has not been implemented."
    /\ error.value = "utf-16"

(* -------------------------------- C7 ----------------------------------- *)

Constructed == pc \notin {"start", "construct_failed"}

\* C7 as stated: an object is constructed only if ColumnNames and Offsets
\* have equal and non-zero length; lists of different lengths fail with the
\* mismatch error whatever they hold, and two empty lists are rejected too.
C7_EqualNonZeroLength ==
    /\ Constructed =>
           /\ Len(spec.ColumnNames) = Len(spec.Offsets)
           /\ Len(spec.ColumnNames) # 0
    /\ (Constructing
            /\ props.delimited_newline \in {None, EMPTY, <<LF>>, <<CR>>, <<CR, LF>>}
            /\ (\A k \in 1..Len(spec.Offsets) : IsIntLiteral(spec.Offsets[k]))
            /\ Len(spec.ColumnNames) # Len(spec.Offsets)) =>
           /\ pc = "construct_failed"
           /\ error.message = "The number of column names and offsets do not match"

(* -------------------------------- C8 ----------------------------------- *)

\* C8 as stated: every constructed object has width > 0 for every column, so
\* parse_fixed_width_file never slices a line with a non-positive width.
C8_PositiveWidths ==
    /\ Constructed => \A k \in 1..Len(props.offsets) : props.offsets[k] > 0
    /\ (pc \in {"parsed", "generated"} /\ Len(delimited_data) > 0) =>
           \A k \in 1..Len(props.offsets) : props.offsets[k] > 0

(* -------------------------------- C9 ----------------------------------- *)

\* What parse_fixed_width_file makes of the logical lines of the state when
\* each is ended by the terminator t.
ParsedWith(t) ==
    parse_fixed_width_file(Concat([k \in 1..Len(LogicalLines) |-> LogicalLines[k] \o t]),
                           props.offsets)

\* C9: the records parse_fixed_width_file returns for a sequence of logical
\* lines are the same (count, order, fields) whether the lines end in "\n",
\* "\r" or "\r\n"; the terminator does not count towards the width of a
\* line, and no decoded field holds "\r" or "\n".
C9_UniversalNewlines ==
    pc \in {"parsed", "parse_failed", "generated"} =>
        /\ \A t \in Terminators :
               /\ ParsedWith(t).raised = (pc = "parse_failed")
               /\ ParsedWith(t).processed = processed
               /\ ~ParsedWith(t).raised => ParsedWith(t).data = delimited_data
        /\ pc # "parse_failed" =>
               /\ Len(delimited_data) = Len(LogicalLines)
               /\ \A k \in 1..Len(LogicalLines) :
                      Len(LogicalLines[k]) = sum(props.offsets)
        /\ \A k \in 1..Len(delimited_data) :
               \A i \in 1..Len(delimited_data[k]) : ~HasNewline(delimited_data[k][i])

\* Two records decoded from a file whose lines end in "\r" alone.
C9_Witness ==
    /\ pc = "parsed"
    /\ Len(delimited_data) = 2
    /\ Len(props.offsets) = 2
    /\ fixed_width_file = Concat([k \in 1..2 |-> LogicalLines[k] \o <<CR>>])

(* -------------------------------- C10 ---------------------------------- *)

RECURSIVE JoinWithCommas(_)
JoinWithCommas(fields) ==
    IF fields = <<>> THEN <<>>
    ELSE IF Len(fields) = 1 THEN fields[1]
    ELSE fields[1] \o <<COMMA>> \o JoinWithCommas(Tail(fields))

\* C10: include_header is true exactly when the spec's IncludeHeader is the
\* string "True", and any other value gives false without an error; when it
\* is true the first row written is the column names in spec order, when it
\* is false no header is written; the data rows follow, one per decoded
\* record, in input order.
C10_HeaderThenRecords ==
    /\ Constructed => (props.include_header <=> spec.IncludeHeader = "True")
    /\ (Constructing /\ SoundBeforeEncodings
            /\ spec.FixedWidthEncoding = "windows-1252"
            /\ spec.DelimitedEncoding = "utf-8") =>
           /\ pc # "construct_failed"
           /\ error.type = "" \/ pc = "parse_failed"
    /\ pc = "generated" =>
           LET rows == SplitOn(delimited_file, ChosenTerminator, <<>>).rows
               header == IF spec.IncludeHeader = "True" THEN 1 ELSE 0
           IN  /\ Len(rows) = header + Len(delimited_data)
               /\ header = 1 =>
                      rows[1] = JoinWithCommas([k \in 1..Len(spec.ColumnNames) |->
                                                   <<spec.ColumnNames[k]>>])
               /\ \A k \in 1..Len(delimited_data) :
                      rows[header + k] = JoinWithCommas(delimited_data[k])

\* A header and two different records have been written.
C10_Witness ==
    /\ pc = "generated"
    /\ spec.IncludeHeader = "True"
    /\ Len(spec.ColumnNames) = 2
    /\ Len(delimited_data) = 2
    /\ delimited_data[1] # delimited_data[2]

(* -------------------------------- C11 ---------------------------------- *)

\* The check of the constructor a spec and a delimited_newline fail first,
\* told from the inputs alone ("none" when they pass every check).
FailureKind(sp, delimited_newline) ==
    IF delimited_newline \notin {None, EMPTY, <<LF>>, <<CR>>, <<CR, LF>>}
    THEN "illegal terminator"
    ELSE IF \E k \in 1..Len(sp.Offsets) : ~IsIntLiteral(sp.Offsets[k])
    THEN "offset literal"
    ELSE IF Len(sp.ColumnNames) # Len(sp.Offsets)
    THEN "length mismatch"
    ELSE IF sp.FixedWidthEncoding # "windows-1252" \/ sp.DelimitedEncoding # "utf-8"
    THEN "unsupported encoding"
    ELSE "none"

ValidationKinds == {"illegal terminator", "length mismatch", "unsupported encoding"}

\* The error kinds the constructor raises for failures of another kind than
\* the given one.
KindsRaisedForOther(kind) ==
    {EncodingPropertiesInit(sp, delimited_newline).error.type :
        <<sp, delimited_newline>> \in
            {x \in SpecFiles \X DelimitedNewlinePool :
                FailureKind(x[1], x[2]) \in ValidationKinds \ {kind}}}

\* C11 as stated: the four failure kinds (illegal terminator, length
\* mismatch, unsupported encoding, record width mismatch) are told apart by
\* the kind of the error raised, and the record-width error names the input
\* line that violated the width (by its number or by its text).
C11_TypedSpecificErrors ==
    /\ (pc = "construct_failed"
            /\ FailureKind(spec, props.delimited_newline) \in ValidationKinds) =>
           /\ error.type # ""
           /\ error.type \notin KindsRaisedForOther(FailureKind(spec, props.delimited_newline))
    /\ pc = "parse_failed" =>
           /\ error.type # ""
           /\ error.type \notin KindsRaisedForOther("record width")
           /\ \/ error.value = <<processed>>
              \/ error.value = LogicalLines[processed]

====
